---------------------------- MODULE Spec2Model ----------------------------
(***************************************************************************)
(* A model of mach's request handling:                                     *)
(*   - Request.prototype.call        (modules/Request.js, the dispatch     *)
(*     protocol),                                                          *)
(*   - basicAuth / unauthorized      (the Basic Auth middleware),          *)
(*   - Request.prototype.getParams / filterParams (the parameter pipeline),*)
(*   - mach.bind                     (the listener bound to a node server),*)
(*   - new Request(options) and the derived properties of a Request.       *)
(*                                                                         *)
(* JavaScript values are records tagged by the field t.  Text that the     *)
(* code takes apart (the Authorization header, the decoded credentials) is *)
(* a sequence of character codes; text the code only passes on or          *)
(* concatenates is a TLA+ string.  A promise is a record with a state      *)
(* ("pending", "fulfilled", "rejected") and a value; the callbacks of      *)
(* then() run as separate steps, as they do on the event loop.             *)
(***************************************************************************)
EXTENDS Integers, Sequences, FiniteSets, TLC

(* ------------------------------ bounds -------------------------------- *)

\* Number of requests in flight at the same time.
NumRequests == 2

\* Number of writes to a Request's headers and fields after construction.
MaxWrites == 1

Requests == 1..NumRequests

(* --------------------------- JavaScript values ------------------------ *)

Undefined == [t |-> "undefined"]
Null == [t |-> "null"]
True == [t |-> "boolean", b |-> TRUE]
False == [t |-> "boolean", b |-> FALSE]
EmptyString == [t |-> "string", s |-> <<>>]
Zero == [t |-> "number", n |-> 0]
NaN == [t |-> "NaN"]
Num(n) == [t |-> "number", n |-> n]

\* A JavaScript string value holding the character codes s.
Str(s) == [t |-> "string", s |-> s]

\* ToBoolean, as used by if (x), !x and x || y.
Truthy(v) ==
  CASE v.t = "undefined" -> FALSE
    [] v.t = "null" -> FALSE
    [] v.t = "boolean" -> v.b
    [] v.t = "string" -> v.s # <<>>
    [] v.t = "number" -> v.n # 0
    [] v.t = "NaN" -> FALSE
    [] OTHER -> TRUE

\* x == null in JavaScript: true of null and undefined only.
IsNullish(v) == v.t \in {"null", "undefined"}

\* An object literal {status, headers, content}.
PlainObject(status, headers, content) ==
  [t |-> "object", status |-> status, headers |-> headers, content |-> content]

\* An instance of Response (response instanceof Response); made is who
\* constructed it.
ResponseInstance(status, headers, content, made) ==
  [t |-> "Response", status |-> status, headers |-> headers,
   content |-> content, made |-> made]

NoHeaders == <<>>
TextPlain == ("Content-Type" :> "text/plain")

\* Response.createFromObject: the Response-construction contract
\* (status/headers/content).
createFromObject(obj) ==
  ResponseInstance(obj.status, obj.headers, obj.content, "createFromObject")

(* ------------------------------ promises ------------------------------ *)

Pending == [state |-> "pending"]
Fulfilled(v) == [state |-> "fulfilled", value |-> v]
Rejected(e) == [state |-> "rejected", value |-> e]
NoPromise == [state |-> "none"]

\* A deferred handed out by an app or by validate: a JavaScript object
\* whose settlement is decided by its producer later.
Deferred(p) == [t |-> "deferred", p |-> p]
IsDeferred(v) == v.t = "deferred"

\* What a value passed to Promise.resolve / q.when settles to, if settled.
Settlement(v) == IF IsDeferred(v) THEN v.p ELSE Fulfilled(v)

(* ---------------------------- apps and errors ------------------------- *)

\* The apps handed to request.call, named by their source text.
AppNames == {"function appA", "function appB"}
NoApp == "no app"

Error(message) == [t |-> "Error", message |-> message]
NoError == [t |-> "no error"]

\* What an app (or validate) may throw or reject with: any value can be a
\* reason, undefined included (throw undefined, a reject() with no argument).
AppErrors == {Error("boom"), Error("ECONNRESET"), Undefined}

\* Values an app may return or resolve its deferred to.
AppValues ==
  { Null, Undefined,
    ResponseInstance(200, TextPlain, "hello", "app"),
    PlainObject(200, TextPlain, "hello"),
    PlainObject(404, NoHeaders, "not found") }

\* One invocation of an app: it throws, returns a value, or returns a
\* deferred that is settled later.
AppBehaviours ==
  [kind : {"throw"}, error : AppErrors]
    \cup [kind : {"return"}, value : AppValues \cup {Deferred(Pending)}]

(* ------------------------------ state --------------------------------- *)

VARIABLES
  callPc,        \* per request: "idle", "awaiting" (then-callback pending), "settled"
  callApp,       \* per request: the app given to request.call
  callOutcome,   \* per request: "none", "returned" (a promise) or "threw"
  callPromise,   \* per request: the promise request.call returned
  appCalls,      \* per request: number of invocations of the app
  appSaw,        \* per request: request.remoteUser as seen by the app when invoked
  appThrown,     \* per request: the error the app threw, or NoError
  appReturn      \* per request: what the app returned (a value or a deferred)

callVars ==
  <<callPc, callApp, callOutcome, callPromise, appCalls, appSaw, appThrown, appReturn>>

NotReturned == [t |-> "not returned"]

InitCall ==
  /\ callPc = [r \in Requests |-> "idle"]
  /\ callApp = [r \in Requests |-> NoApp]
  /\ callOutcome = [r \in Requests |-> "none"]
  /\ callPromise = [r \in Requests |-> NoPromise]
  /\ appCalls = [r \in Requests |-> 0]
  /\ appSaw = [r \in Requests |-> Undefined]
  /\ appThrown = [r \in Requests |-> NoError]
  /\ appReturn = [r \in Requests |-> NotReturned]

VARIABLES
  request,       \* per request: its headers.authorization and its remoteUser
  authState,     \* "unconstructed", "constructed" or "threw" (basicAuth threw)
  authConfig,    \* the arguments basicAuth was constructed with
  authRealm,     \* the realm variable of the closure, after line 32
  auth           \* per request: the state of the Basic Auth app's invocation

authVars == <<request, authState, authConfig, authRealm, auth>>

VARIABLES
  query,         \* this.query: the mapping parsed from the query string
  content,       \* the content stream: its length and the parameters in it
  contentReads,  \* number of times the content stream has been parsed
  queryParams,   \* the copy of this.query that getParams made
  parse,         \* the promise parseContent returned, with its arguments
  params,        \* this._params: the cached promise, or NoParams
  nextPromise,   \* the identity the next promise of getParams gets
  returned,      \* the identities of the promises getParams returned, in order
  filters        \* the filterParams calls: filterMap and promise returned

paramVars ==
  <<query, content, contentReads, queryParams, parse, params, nextPromise,
    returned, filters>>

VARIABLES
  bind,          \* per request: the listener's position and the continuations run
  nodeResponse,  \* per request: the heads written to the transport, and the body
  errorLog,      \* per request: the messages written to request.error
  doneCalls      \* per request: number of calls of request.done()

bindVars == <<bind, nodeResponse, errorLog, doneCalls>>

InitBindIdle ==
  /\ bind = [r \in Requests |-> [pc |-> "idle", ran |-> {}]]
  /\ nodeResponse = [r \in Requests |-> [heads |-> <<>>, body |-> "none"]]
  /\ errorLog = [r \in Requests |-> <<>>]
  /\ doneCalls = [r \in Requests |-> 0]

VARIABLES
  options,       \* the options the Request was constructed with
  self,          \* the Request: its headers, fields and memo slots
  writes,        \* number of writes to the Request since its construction
  seen           \* the reads of one derived property: first and latest value

reqVars == <<options, self, writes, seen>>

NotRead == [t |-> "not read"]

InitRequestIdle ==
  /\ options = [t |-> "no options"]
  /\ self = [t |-> "no request"]
  /\ writes = 0
  /\ seen = NotRead

vars == <<callVars, authVars, paramVars, bindVars, reqVars>>

(* ----------------------- Request.prototype.call ----------------------- *)

\* catch (error) { return Promise.reject(error); }
CallCatch_rethrow(error) == [outcome |-> "threw", promise |-> NoPromise]
CallCatch(error) == [outcome |-> "returned", promise |-> Rejected(error)]

\* throw new Error('No response returned from app: ' + app)
NoResponseError(app) == Error("No response returned from app: " \o app)

\* The callback given to then() in call: the value the app's result resolved
\* to becomes the settlement of the promise call returned.
CallNormalize_skip(response, app) ==
  IF IsNullish(response) THEN Rejected(NoResponseError(app))
  ELSE Fulfilled(response)
CallNormalize_nullOk(response, app) ==
  IF response.t = "null" THEN Fulfilled(response)
  ELSE IF IsNullish(response) THEN Rejected(NoResponseError(app))
  ELSE IF response.t # "Response" THEN Fulfilled(createFromObject(response))
  ELSE Fulfilled(response)
CallNormalize(response, app) ==
  IF IsNullish(response) THEN Rejected(NoResponseError(app))
  ELSE IF response.t # "Response" THEN Fulfilled(createFromObject(response))
  ELSE Fulfilled(response)

\* request.call(app), up to its return: the app is invoked once with the
\* request (whose remoteUser is user); a throw is caught and turned into a
\* rejected promise, anything else is awaited.
CallInvoke(r, app, user) ==
  /\ callPc[r] = "idle"
  /\ callApp' = [callApp EXCEPT ![r] = app]
  /\ appCalls' = [appCalls EXCEPT ![r] = @ + 1]
  /\ appSaw' = [appSaw EXCEPT ![r] = user]
  /\ \E b \in AppBehaviours :
       IF b.kind = "throw"
       THEN /\ appThrown' = [appThrown EXCEPT ![r] = b.error]
            /\ callOutcome' = [callOutcome EXCEPT ![r] = CallCatch(b.error).outcome]
            /\ callPromise' = [callPromise EXCEPT ![r] = CallCatch(b.error).promise]
            /\ callPc' = [callPc EXCEPT ![r] = "settled"]
            /\ UNCHANGED appReturn
       ELSE /\ appReturn' = [appReturn EXCEPT ![r] = b.value]
            /\ callOutcome' = [callOutcome EXCEPT ![r] = "returned"]
            /\ callPromise' = [callPromise EXCEPT ![r] = Pending]
            /\ callPc' = [callPc EXCEPT ![r] = "awaiting"]
            /\ UNCHANGED appThrown

\* The app settles the deferred it returned.
AppSettle(r) ==
  /\ callPc[r] = "awaiting"
  /\ IsDeferred(appReturn[r])
  /\ appReturn[r].p = Pending
  /\ \E p \in {Fulfilled(v) : v \in AppValues} \cup {Rejected(e) : e \in AppErrors} :
       appReturn' = [appReturn EXCEPT ![r] = Deferred(p)]
  /\ UNCHANGED <<callPc, callApp, callOutcome, callPromise, appCalls, appSaw, appThrown>>

\* Promise.resolve(response).then(callback): once the app's result has
\* settled, the callback runs, or the rejection passes through.
CallThen(r) ==
  /\ callPc[r] = "awaiting"
  /\ Settlement(appReturn[r]) # Pending
  /\ LET s == Settlement(appReturn[r])
     IN callPromise' = [callPromise EXCEPT ![r] =
          IF s.state = "rejected" THEN Rejected(s.value)
          ELSE CallNormalize(s.value, callApp[r])]
  /\ callPc' = [callPc EXCEPT ![r] = "settled"]
  /\ UNCHANGED <<callApp, callOutcome, appCalls, appSaw, appThrown, appReturn>>

(* ----------------------------- text helpers --------------------------- *)

\* The characters the Basic Auth app splits on.
Space == 32
Colon == 58

\* The index of the first c in s, or 0.
RECURSIVE IndexFrom(_, _, _)
IndexFrom(s, c, i) ==
  IF i > Len(s) THEN 0
  ELSE IF s[i] = c THEN i
  ELSE IndexFrom(s, c, i + 1)

IndexOf(s, c) == IndexFrom(s, c, 1)

\* String.prototype.split with a one-character separator: every occurrence
\* of the separator cuts.
RECURSIVE Split(_, _)
Split(s, sep) ==
  LET i == IndexOf(s, sep)
  IN IF i = 0 THEN <<s>>
     ELSE <<SubSeq(s, 1, i - 1)>> \o Split(SubSeq(s, i + 1, Len(s)), sep)

\* array[i] of JavaScript (zero-based): undefined past the end.
At(parts, i) == IF i + 1 <= Len(parts) THEN Str(parts[i + 1]) ELSE Undefined

\* String.prototype.toLowerCase on ASCII text.
ToLowerCase(s) ==
  [i \in 1..Len(s) |-> IF s[i] \in 65..90 THEN s[i] + 32 ELSE s[i]]

\* The value of one character of the base64 alphabet.
Sextet(c) ==
  CASE c \in 65..90 -> c - 65
    [] c \in 97..122 -> c - 71
    [] c \in 48..57 -> c + 4
    [] c \in {43, 45} -> 62
    [] c \in {47, 95} -> 63

RECURSIVE Base64Groups(_)
Base64Groups(d) ==
  IF Len(d) >= 4
  THEN LET n == Sextet(d[1]) * 262144 + Sextet(d[2]) * 4096
                  + Sextet(d[3]) * 64 + Sextet(d[4])
       IN <<n \div 65536, (n \div 256) % 256, n % 256>>
            \o Base64Groups(SubSeq(d, 5, Len(d)))
  ELSE IF Len(d) = 3
  THEN LET n == Sextet(d[1]) * 4096 + Sextet(d[2]) * 64 + Sextet(d[3])
       IN <<n \div 1024, (n \div 4) % 256>>
  ELSE IF Len(d) = 2
  THEN <<(Sextet(d[1]) * 64 + Sextet(d[2])) \div 16>>
  ELSE <<>>

\* new Buffer(token, 'base64').toString() for a token of base64 characters
\* that encodes ASCII text: decoding stops at the padding.
Base64Decode(token) ==
  LET pad == IndexOf(token, 61)
      data == IF pad = 0 THEN token ELSE SubSeq(token, 1, pad - 1)
  IN Base64Groups(data)

(* ------------------------------ basicAuth ----------------------------- *)

\* "basic"
BasicLower == <<98, 97, 115, 105, 99>>
\* "Authorization Required"
DefaultRealm ==
  <<65, 117, 116, 104, 111, 114, 105, 122, 97, 116, 105, 111, 110, 32,
    82, 101, 113, 117, 105, 114, 101, 100>>
\* "Staff Only"
StaffOnly == <<83, 116, 97, 102, 102, 32, 79, 110, 108, 121>>
\* 'Basic realm="'
ChallengePrefix == <<66, 97, 115, 105, 99, 32, 114, 101, 97, 108, 109, 61, 34>>
\* "canonical_admin"
CanonicalAdmin ==
  <<99, 97, 110, 111, 110, 105, 99, 97, 108, 95, 97, 100, 109, 105, 110>>

\* The realm argument of basicAuth: left out, empty, or a name.
RealmArgs == {Undefined, EmptyString, Str(StaffOnly)}

\* typeof validate, for the validate argument of basicAuth.
ValidateTypes == {"function", "undefined", "string"}

\* The downstream app the middleware wraps.
DownstreamApp == "function downstream"

\* Authorization headers clients send, each with the text whose base64
\* encoding is its token (creds), where it has one.
AuthInputs ==
  { \* no Authorization header
    [header |-> Undefined, creds |-> <<>>],
    \* an empty Authorization header
    [header |-> EmptyString, creds |-> <<>>],
    \* "Digest dTphOmI="
    [header |-> Str(<<68, 105, 103, 101, 115, 116, 32, 100, 84, 112, 104, 79, 109, 73, 61>>),
     creds |-> <<>>],
    \* "Basic" (no credential token)
    [header |-> Str(<<66, 97, 115, 105, 99>>), creds |-> <<>>],
    \* "Basic YWRtaW46c2VjcmV0", the encoding of "admin:secret"
    [header |-> Str(<<66, 97, 115, 105, 99, 32, 89, 87, 82, 116, 97, 87, 52, 54,
                      99, 50, 86, 106, 99, 109, 86, 48>>),
     creds |-> <<97, 100, 109, 105, 110, 58, 115, 101, 99, 114, 101, 116>>],
    \* "basic dTphOmI=", the encoding of "u:a:b"
    [header |-> Str(<<98, 97, 115, 105, 99, 32, 100, 84, 112, 104, 79, 109, 73, 61>>),
     creds |-> <<117, 58, 97, 58, 98>>],
    \* "BASIC Z3Vlc3Q=", the encoding of "guest"
    [header |-> Str(<<66, 65, 83, 73, 67, 32, 90, 51, 86, 108, 99, 51, 81, 61>>),
     creds |-> <<103, 117, 101, 115, 116>>],
    \* "Basic Ym9iOg==", the encoding of "bob:"
    [header |-> Str(<<66, 97, 115, 105, 99, 32, 89, 109, 57, 105, 79, 103, 61, 61>>),
     creds |-> <<98, 111, 98, 58>>] }

\* Values validate may return or resolve its deferred to.
ValidateValues == {True, False, Null, EmptyString, Zero, Str(CanonicalAdmin)}

\* One invocation of validate: it throws, returns a value, or returns a
\* deferred that is settled later.
ValidateBehaviours ==
  [kind : {"throw"}, error : AppErrors]
    \cup [kind : {"return"}, value : ValidateValues \cup {Deferred(Pending)}]

NoArgs == <<>>

AuthIdle ==
  [pc |-> "start", outcome |-> "none", returned |-> NotReturned,
   thrown |-> NoError, promise |-> NoPromise,
   validateCalls |-> 0, validateArgs |-> NoArgs, validateReturn |-> NotReturned]

InitAuthIdle ==
  /\ request = [r \in Requests |-> [authorization |-> Undefined, remoteUser |-> Undefined]]
  /\ authState = "unconstructed"
  /\ authConfig = [app |-> NoApp, validate |-> "undefined", realm |-> Undefined]
  /\ authRealm = Undefined
  /\ auth = [r \in Requests |-> AuthIdle]

\* realm = realm || 'Authorization Required'
RealmOrDefault(realm) == IF Truthy(realm) THEN realm ELSE Str(DefaultRealm)

\* typeof validate !== 'function', negated
ValidateIsCallable_unchecked(validate) == TRUE
ValidateIsCallable(validate) == validate = "function"

\* basicAuth(app, validate, realm), up to the return of the app function or
\* the throw of Error('Missing validation function for basic auth').
BasicAuth(app, validate, realm) ==
  /\ authState = "unconstructed"
  /\ authConfig' = [app |-> app, validate |-> validate, realm |-> realm]
  /\ authRealm' = RealmOrDefault(realm)
  /\ authState' = IF ~ValidateIsCallable(validate) THEN "threw" ELSE "constructed"
  /\ UNCHANGED <<request, auth>>

\* function unauthorized(realm)
unauthorized_noChallenge(realm) ==
  PlainObject(401, ("Content-Type" :> "text/plain"), "Not Authorized")
unauthorized(realm) ==
  PlainObject(401,
    ("Content-Type" :> "text/plain")
      @@ ("WWW-Authenticate" :> Str(ChallengePrefix \o realm.s \o <<34>>)),
    "Not Authorized")

\* utils.badRequest()
badRequest == PlainObject(400, TextPlain, "Bad Request")

\* scheme.toLowerCase() !== 'basic', negated
SchemeIsBasic_any(scheme) == TRUE
SchemeIsBasic(scheme) == ToLowerCase(scheme) = BasicLower

\* new Buffer(parts[1], 'base64').toString().split(':'), params[0], params[1]
Credentials(token) ==
  LET split == Split(Base64Decode(token), Colon)
  IN [username |-> At(split, 0), password |-> At(split, 1)]

\* if (user)
AuthAccepts_notNull(user) == ~IsNullish(user)
AuthAccepts_always(user) == TRUE
AuthAccepts(user) == Truthy(user)

\* (user === true) ? username : user
RemoteUser_username(user, username) == username
RemoteUser(user, username) == IF user = True THEN username ELSE user

\* The app function returns value without awaiting anything.
AuthReturn(r, value) ==
  auth' = [auth EXCEPT ![r].pc = "done", ![r].outcome = "returned",
                       ![r].returned = value]

\* The app function throws out of its synchronous part.
AuthThrow(r, error) ==
  auth' = [auth EXCEPT ![r].pc = "done", ![r].outcome = "threw",
                       ![r].thrown = error]

\* The app function of basicAuth, from its entry to its return (lines
\* 39-50): validate is invoked inside it, the callback of q.when is not.
AuthApp(r) ==
  /\ authState = "constructed"
  /\ auth[r].pc = "start"
  /\ LET authorization == request[r].authorization
     IN IF ~Truthy(authorization) THEN AuthReturn(r, unauthorized(authRealm))
        ELSE LET parts == Split(authorization.s, Space)
             IN IF ~SchemeIsBasic(parts[1]) THEN AuthReturn(r, badRequest)
                ELSE IF At(parts, 1) = Undefined
                THEN \* new Buffer(undefined, 'base64') throws a TypeError
                     AuthThrow(r, Error("TypeError: First argument needs to be a number, array or string."))
                ELSE LET c == Credentials(parts[2])
                     IN \E b \in ValidateBehaviours :
                          IF b.kind = "throw"
                          THEN auth' = [auth EXCEPT
                                 ![r].pc = "done", ![r].outcome = "threw",
                                 ![r].thrown = b.error,
                                 ![r].validateCalls = @ + 1,
                                 ![r].validateArgs = <<c.username, c.password>>]
                          ELSE auth' = [auth EXCEPT
                                 ![r].pc = "validating", ![r].outcome = "returned",
                                 ![r].returned = [t |-> "promise"],
                                 ![r].promise = Pending,
                                 ![r].validateCalls = @ + 1,
                                 ![r].validateArgs = <<c.username, c.password>>,
                                 ![r].validateReturn = b.value]
  /\ UNCHANGED <<request, authState, authConfig, authRealm>>

\* validate's deferred is settled by whoever made it.
ValidateSettle(r) ==
  /\ auth[r].pc = "validating"
  /\ IsDeferred(auth[r].validateReturn)
  /\ auth[r].validateReturn.p = Pending
  /\ \E p \in {Fulfilled(v) : v \in ValidateValues} \cup {Rejected(e) : e \in AppErrors} :
       auth' = [auth EXCEPT ![r].validateReturn = Deferred(p)]
  /\ UNCHANGED <<request, authState, authConfig, authRealm>>

\* request.remoteUser = ..., on the request the app function was called with
SetRemoteUser_shared(req, r, user) ==
  [q \in DOMAIN req |-> [req[q] EXCEPT !.remoteUser = user]]
SetRemoteUser(req, r, user) == [req EXCEPT ![r].remoteUser = user]

\* q.when(validate(...), function (user) {...}): the callback (lines 50-57)
\* runs once validate's result has settled; a rejection passes through.
\* request.call(app) runs inside the callback up to its return.
AuthThen(r) ==
  /\ auth[r].pc = "validating"
  /\ Settlement(auth[r].validateReturn) # Pending
  /\ LET s == Settlement(auth[r].validateReturn)
         username == auth[r].validateArgs[1]
     IN IF s.state = "rejected"
        THEN /\ auth' = [auth EXCEPT ![r].pc = "done", ![r].promise = Rejected(s.value)]
             /\ UNCHANGED <<request, callVars>>
        ELSE IF AuthAccepts(s.value)
        THEN /\ request' = SetRemoteUser(request, r, RemoteUser(s.value, username))
             /\ CallInvoke(r, authConfig.app, request'[r].remoteUser)
             /\ auth' = [auth EXCEPT ![r].pc = "delegated"]
        ELSE /\ auth' = [auth EXCEPT ![r].pc = "done",
                                     ![r].promise = Fulfilled(unauthorized(authRealm))]
             /\ UNCHANGED <<request, callVars>>
  /\ UNCHANGED <<authState, authConfig, authRealm>>

\* The promise the callback returned (request.call's) settles the promise
\* the app function returned.
AuthAdopt(r) ==
  /\ auth[r].pc = "delegated"
  /\ callPc[r] = "settled"
  /\ auth' = [auth EXCEPT ![r].pc = "done", ![r].promise = callPromise[r]]
  /\ UNCHANGED <<request, authState, authConfig, authRealm>>

(* ---------------------- getParams / filterParams ---------------------- *)

\* Bound on the number of getParams calls on the request (those made by
\* filterParams included).
MaxCalls == 3

NoParams == [id |-> 0, p |-> NoPromise]
NoParse == [p |-> NoPromise]
EmptyObject == <<>>

\* The texts "1", "2", "3", "30" and "x".
One == Str(<<49>>)
Two == Str(<<50>>)
Three == Str(<<51>>)
Thirty == Str(<<51, 48>>)
Ex == Str(<<120>>)

\* Query mappings of the request.
QueryInputs ==
  { EmptyObject,
    ("a" :> One),
    ("a" :> One) @@ ("name" :> Ex),
    ("age" :> Thirty) @@ ("name" :> Ex) }

\* Content streams of the request: length in bytes and the parameters a
\* parse yields.
ContentInputs ==
  { [length |-> 0, params |-> EmptyObject],
    [length |-> 7, params |-> ("a" :> Two) @@ ("b" :> Three)],
    [length |-> 6, params |-> ("age" :> Ex)] }

\* maxLength arguments callers pass.
MaxLengths == {4, 1024}

\* uploadPrefix arguments callers pass.
UploadPrefixes == {"MachUpload-"}

InitParamsIdle ==
  /\ query = EmptyObject
  /\ content = [length |-> 0, params |-> EmptyObject]
  /\ contentReads = 0
  /\ queryParams = EmptyObject
  /\ parse = NoParse
  /\ params = NoParams
  /\ nextPromise = 1
  /\ returned = <<>>
  /\ filters = <<>>

\* utils/mergeProperties(target, source): the properties of source are
\* copied onto target, which is returned.
mergeProperties(target, source) ==
  [k \in DOMAIN target \cup DOMAIN source |->
     IF k \in DOMAIN source THEN source[k] ELSE target[k]]

\* if (this._params)
ParamsCached_settledOnly(p) == p # NoParams /\ p.p.state # "pending"
ParamsCached(p) == p # NoParams

\* return mergeProperties(queryParams, params), the callback of then()
MergeParams_queryWins(qp, contentParams) == mergeProperties(contentParams, qp)
MergeParams(qp, contentParams) == mergeProperties(qp, contentParams)

\* request.getParams(maxLength, uploadPrefix), up to its return.
GetParamsCall(maxLength, uploadPrefix) ==
  IF ParamsCached(params)
  THEN /\ returned' = Append(returned, params.id)
       /\ UNCHANGED <<contentReads, queryParams, parse, params, nextPromise>>
  ELSE /\ queryParams' = mergeProperties(EmptyObject, query)
       /\ contentReads' = contentReads + 1
       /\ parse' = [p |-> Pending, maxLength |-> maxLength, uploadPrefix |-> uploadPrefix]
       /\ params' = [id |-> nextPromise + 1, p |-> Pending]
       /\ nextPromise' = nextPromise + 2
       /\ returned' = Append(returned, nextPromise + 1)

GetParams(maxLength, uploadPrefix) ==
  /\ Len(returned) < MaxCalls
  /\ GetParamsCall(maxLength, uploadPrefix)
  /\ UNCHANGED <<query, content, filters>>

\* Message.prototype.parseContent settles its promise: with the parameters
\* of the content, or with an error when the content is longer than
\* maxLength.
ParseContentDone ==
  /\ parse.p = Pending
  /\ parse' = [parse EXCEPT !.p =
       IF content.length > parse.maxLength
       THEN Rejected(Error("Maximum content length exceeded"))
       ELSE Fulfilled(content.params)]
  /\ UNCHANGED <<query, content, contentReads, queryParams, params, nextPromise,
                 returned, filters>>

\* The callback getParams gave to then() runs, or the rejection of the
\* parse passes through to this._params.
GetParamsThen ==
  /\ params # NoParams
  /\ params.p = Pending
  /\ parse.p.state \in {"fulfilled", "rejected"}
  /\ params' = [params EXCEPT !.p =
       IF parse.p.state = "rejected" THEN Rejected(parse.p.value)
       ELSE Fulfilled(MergeParams(queryParams, parse.p.value))]
  /\ UNCHANGED <<query, content, contentReads, queryParams, parse, nextPromise,
                 returned, filters>>

\* The filter functions of a filterMap, by name; "none" is a value that is
\* not a function.
FilterNames == {"String", "Number", "dropIt", "none"}

\* The number a text of decimal digits denotes.
RECURSIVE DecimalValue(_)
DecimalValue(s) ==
  IF s = <<>> THEN 0
  ELSE 10 * DecimalValue(SubSeq(s, 1, Len(s) - 1)) + (s[Len(s)] - 48)

\* Number(value) for a string: the number it denotes in decimal digits, 0
\* for the empty string, NaN for other text.
ToNumber(value) ==
  IF \A i \in 1..Len(value.s) : value.s[i] \in 48..57
  THEN Num(DecimalValue(value.s))
  ELSE NaN

\* filter(value)
ApplyFilter(filter, value) ==
  CASE filter = "String" -> value
    [] filter = "Number" -> ToNumber(value)
    [] filter = "dropIt" -> Undefined

\* The callback filterParams gave to then().
FilterByMap_blacklist(filterMap, p) ==
  LET dropped == {k \in DOMAIN filterMap \cap DOMAIN p :
                    \/ filterMap[k] = "none"
                    \/ ApplyFilter(filterMap[k], p[k]) = Undefined}
  IN [k \in DOMAIN p \ dropped |->
        IF k \in DOMAIN filterMap THEN ApplyFilter(filterMap[k], p[k]) ELSE p[k]]
FilterByMap(filterMap, p) ==
  LET kept == {k \in DOMAIN filterMap :
                 /\ filterMap[k] # "none"
                 /\ k \in DOMAIN p
                 /\ ApplyFilter(filterMap[k], p[k]) # Undefined}
  IN [k \in kept |-> ApplyFilter(filterMap[k], p[k])]

\* filterMaps callers pass.
FilterMaps ==
  { ("a" :> "String") @@ ("name" :> "dropIt"),
    ("age" :> "Number"),
    ("age" :> "String") @@ ("b" :> "none") @@ ("zip" :> "String") }

\* request.filterParams(filterMap, maxLength, uploadPrefix), up to its
\* return.
FilterParams(filterMap, maxLength, uploadPrefix) ==
  /\ Len(returned) < MaxCalls
  /\ GetParamsCall(maxLength, uploadPrefix)
  /\ filters' = Append(filters, [filterMap |-> filterMap, p |-> Pending])
  /\ UNCHANGED <<query, content>>

\* The callback of the i-th filterParams call runs, or the rejection of
\* this._params passes through.
FilterParamsThen(i) ==
  /\ filters[i].p = Pending
  /\ params.p.state \in {"fulfilled", "rejected"}
  /\ filters' = [filters EXCEPT ![i].p =
       IF params.p.state = "rejected" THEN Rejected(params.p.value)
       ELSE Fulfilled(FilterByMap(filters[i].filterMap, params.p.value))]
  /\ UNCHANGED <<query, content, contentReads, queryParams, parse, params,
                 nextPromise, returned>>

(* ------------------- dispatching requests to an app -------------------- *)

\* A caller dispatches request r to some app.
Call(r) ==
  /\ \E app \in AppNames : CallInvoke(r, app, request[r].remoteUser)
  /\ UNCHANGED <<authVars, paramVars, bindVars, reqVars>>

CallAppSettle(r) == AppSettle(r) /\ UNCHANGED <<authVars, paramVars, bindVars, reqVars>>

CallSettle(r) == CallThen(r) /\ UNCHANGED <<authVars, paramVars, bindVars, reqVars>>

InitDispatch ==
  InitCall /\ InitAuthIdle /\ InitParamsIdle /\ InitBindIdle /\ InitRequestIdle

NextCall ==
  \E r \in Requests : Call(r) \/ CallAppSettle(r) \/ CallSettle(r)

SpecCall == InitDispatch /\ [][NextCall]_vars

(* ------------------ one request through Basic Auth --------------------- *)

\* The request the middleware is followed on.
Subject == CHOOSE r \in Requests : TRUE

InitAuth ==
  /\ InitCall
  /\ \E i \in AuthInputs :
       request = [r \in Requests |-> [authorization |-> i.header, remoteUser |-> Undefined]]
  /\ authState = "unconstructed"
  /\ authConfig = [app |-> NoApp, validate |-> "undefined", realm |-> Undefined]
  /\ authRealm = Undefined
  /\ auth = [r \in Requests |-> AuthIdle]
  /\ InitParamsIdle
  /\ InitBindIdle
  /\ InitRequestIdle

Construct ==
  /\ \E validate \in ValidateTypes, realm \in RealmArgs :
       BasicAuth(DownstreamApp, validate, realm)
  /\ UNCHANGED <<callVars, paramVars, bindVars, reqVars>>

Handle == AuthApp(Subject) /\ UNCHANGED <<callVars, paramVars, bindVars, reqVars>>

Validated == ValidateSettle(Subject) /\ UNCHANGED <<callVars, paramVars, bindVars, reqVars>>

Decide == AuthThen(Subject) /\ UNCHANGED <<paramVars, bindVars, reqVars>>

DownstreamSettle == AppSettle(Subject) /\ UNCHANGED <<authVars, paramVars, bindVars, reqVars>>

DownstreamDone == CallThen(Subject) /\ UNCHANGED <<authVars, paramVars, bindVars, reqVars>>

Finish == AuthAdopt(Subject) /\ UNCHANGED <<callVars, paramVars, bindVars, reqVars>>

NextAuth ==
  \/ Construct
  \/ Handle
  \/ Validated
  \/ Decide
  \/ DownstreamSettle
  \/ DownstreamDone
  \/ Finish

SpecAuth == InitAuth /\ [][NextAuth]_vars

(* --------------- requests side by side through Basic Auth -------------- *)

\* The Authorization headers of the requests: none, the encoding of
\* "admin:secret" and the encoding of "bob:".
PairInputs ==
  {i \in AuthInputs :
     \/ i.header = Undefined
     \/ i.creds = <<97, 100, 109, 105, 110, 58, 115, 101, 99, 114, 101, 116>>
     \/ i.creds = <<98, 111, 98, 58>>}

\* What validate returns or resolves to, for these requests.
PairValidateValues == {True, False, Str(CanonicalAdmin)}

\* What the downstream app resolves its deferred to, for these requests.
PairResponse == ResponseInstance(200, TextPlain, "hello", "app")

\* One app function made by basicAuth(app, validate) serves every request.
InitAuthPair ==
  /\ InitCall
  /\ \E h \in [Requests -> PairInputs] :
       request = [r \in Requests |-> [authorization |-> h[r].header, remoteUser |-> Undefined]]
  /\ authState = "constructed"
  /\ authConfig = [app |-> DownstreamApp, validate |-> "function", realm |-> Undefined]
  /\ authRealm = RealmOrDefault(Undefined)
  /\ auth = [r \in Requests |-> AuthIdle]
  /\ InitParamsIdle
  /\ InitBindIdle
  /\ InitRequestIdle

PairHandle(r) ==
  /\ AuthApp(r)
  /\ auth'[r].outcome = "returned"
  /\ auth'[r].validateReturn \in {NotReturned, Deferred(Pending)} \cup PairValidateValues
  /\ UNCHANGED <<callVars, paramVars, bindVars, reqVars>>

PairValidated(r) ==
  /\ ValidateSettle(r)
  /\ auth'[r].validateReturn \in {Deferred(Fulfilled(v)) : v \in PairValidateValues}
  /\ UNCHANGED <<callVars, paramVars, bindVars, reqVars>>

PairDecide(r) ==
  /\ AuthThen(r)
  /\ appThrown'[r] = NoError
  /\ appReturn'[r] \in {NotReturned, Deferred(Pending)}
  /\ UNCHANGED <<paramVars, bindVars, reqVars>>

PairDownstreamSettle(r) ==
  /\ AppSettle(r)
  /\ appReturn'[r] = Deferred(Fulfilled(PairResponse))
  /\ UNCHANGED <<authVars, paramVars, bindVars, reqVars>>

PairDownstreamDone(r) == CallThen(r) /\ UNCHANGED <<authVars, paramVars, bindVars, reqVars>>

PairFinish(r) == AuthAdopt(r) /\ UNCHANGED <<callVars, paramVars, bindVars, reqVars>>

NextAuthPair ==
  \E r \in Requests :
    \/ PairHandle(r)
    \/ PairValidated(r)
    \/ PairDecide(r)
    \/ PairDownstreamSettle(r)
    \/ PairDownstreamDone(r)
    \/ PairFinish(r)

SpecAuthPair == InitAuthPair /\ [][NextAuthPair]_vars

(* ------------------- mach.bind: the request listener ------------------ *)

\* The app given to mach.bind.
BoundApp == "function appA"

\* error.stack: the stack of an Error begins with its name and message.
ErrorStack(error) == "Error: " \o error.message

\* 'There was an unhandled error!\n' + stack + '\n'
Diagnostic(error) ==
  "There was an unhandled error!\n" \o ErrorStack(error) \o "\n"

InternalServerError == "Internal Server Error"

\* The head writeHead puts on the transport.
WriteHead(status, headers) == [status |-> status, headers |-> headers]

\* The first callback of then (lines 24-28): the head of the app's response
\* is written, its content piped, and request.done() called.
OnFulfilled(r, response) ==
  /\ nodeResponse' = [nodeResponse EXCEPT ![r] =
       [heads |-> Append(@.heads, WriteHead(response.status, response.headers)),
        body |-> [piped |-> response.content]]]
  /\ doneCalls' = [doneCalls EXCEPT ![r] = @ + 1]
  /\ bind' = [bind EXCEPT ![r] = [pc |-> "done", ran |-> @.ran \cup {"success"}]]
  /\ UNCHANGED errorLog

\* The second callback of then (lines 29-35). Reading error.stack of
\* undefined or null throws a TypeError out of the callback, before any of
\* its writes; nothing handles the promise then() returned.
OnRejected(r, error) ==
  IF IsNullish(error)
  THEN /\ bind' = [bind EXCEPT ![r] = [pc |-> "threw", ran |-> @.ran \cup {"failure"}]]
       /\ UNCHANGED <<nodeResponse, errorLog, doneCalls>>
  ELSE /\ errorLog' = [errorLog EXCEPT ![r] = Append(@, Diagnostic(error))]
       /\ nodeResponse' = [nodeResponse EXCEPT ![r] =
            [heads |-> Append(@.heads, WriteHead(500, TextPlain)),
             body |-> [ended |-> InternalServerError]]]
       /\ doneCalls' = [doneCalls EXCEPT ![r] = @ + 1]
       /\ bind' = [bind EXCEPT ![r] = [pc |-> "done", ran |-> @.ran \cup {"failure"}]]

\* nodeServer.on('request', ...): the listener up to the return of then().
RequestEvent(r) ==
  /\ bind[r].pc = "idle"
  /\ CallInvoke(r, BoundApp, request[r].remoteUser)
  /\ bind' = [bind EXCEPT ![r].pc = "listening"]
  /\ UNCHANGED <<nodeResponse, errorLog, doneCalls, authVars, paramVars, reqVars>>

BindAppSettle(r) == AppSettle(r) /\ UNCHANGED <<authVars, paramVars, bindVars, reqVars>>

BindCallSettle(r) == CallThen(r) /\ UNCHANGED <<authVars, paramVars, bindVars, reqVars>>

\* The promise of request.call(app) has settled: one of the two callbacks
\* given to then() runs.
BindThen(r) ==
  /\ bind[r].pc = "listening"
  /\ callPc[r] = "settled"
  /\ IF callPromise[r].state = "fulfilled"
     THEN OnFulfilled(r, callPromise[r].value)
     ELSE OnRejected(r, callPromise[r].value)
  /\ UNCHANGED <<callVars, authVars, paramVars, reqVars>>

NextBind ==
  \E r \in Requests :
    RequestEvent(r) \/ BindAppSettle(r) \/ BindCallSettle(r) \/ BindThen(r)

SpecBind == InitDispatch /\ [][NextBind]_vars

\* The callbacks of settled promises are run by the event loop; whether an
\* app ever settles its deferred is up to the app.
SpecBindFair ==
  /\ SpecBind
  /\ \A r \in Requests : WF_vars(BindCallSettle(r)) /\ WF_vars(BindThen(r))

(* ------------------- Request: construction and getters ---------------- *)

\* a || b
Or(a, b) == IF Truthy(a) THEN a ELSE b

\* The decimal digits of a natural number.
RECURSIVE Decimal(_)
Decimal(n) == IF n < 10 THEN <<48 + n>> ELSE Decimal(n \div 10) \o <<48 + (n % 10)>>

\* String(v) of a number or a string.
String(v) == IF v.t = "number" THEN Str(Decimal(v.n)) ELSE v

\* String.prototype.toUpperCase on ASCII text.
ToUpperCase(s) ==
  [i \in 1..Len(s) |-> IF s[i] \in 97..122 THEN s[i] - 32 ELSE s[i]]

\* a + b on strings.
Concat(a, b) == Str(a.s \o b.s)

\* The headers the getters read.
HeaderNames ==
  {"Cookie", "X-Forwarded-Ssl", "X-Forwarded-Proto", "X-Forwarded-Host", "Host",
   "X-Forwarded-Port", "X-Requested-With", "X-Forwarded-For"}

\* Message.call(this, content, headers): the headers given, none by default.
HeadersOf(given) == [h \in HeaderNames |-> IF h \in DOMAIN given THEN given[h] ELSE Undefined]




\* function Request(options), lines 45-74.  The error and close handlers
\* default to functions, so the two throws are not taken.
PathInfoDefault_none(scriptName, pathInfo) == pathInfo
PathInfoDefault(scriptName, pathInfo) ==
  IF scriptName = EmptyString /\ pathInfo = EmptyString THEN Str(<<47>>) ELSE pathInfo

NewRequest(o) ==
  LET scriptName == Or(o.scriptName, EmptyString)
      pathInfo == Or(o.pathInfo, Or(o.path, EmptyString))
  IN [t |-> "Request",
      headers |-> HeadersOf(o.headers),
      _protocol |-> Or(o.protocol, Str(<<104, 116, 116, 112, 58>>)),
      protocolVersion |-> Or(o.protocolVersion, Str(<<49, 46, 48>>)),
      method |-> Str(ToUpperCase(Or(o.method, Str(<<71, 69, 84>>)).s)),
      _remoteHost |-> Or(o.remoteHost, EmptyString),
      remotePort |-> String(Or(o.remotePort, Zero)),
      serverName |-> Or(o.serverName, EmptyString),
      serverPort |-> String(Or(o.serverPort, Zero)),
      queryString |-> Or(o.queryString, EmptyString),
      scriptName |-> scriptName,
      pathInfo |-> PathInfoDefault(scriptName, pathInfo),
      _cookies |-> Undefined,
      _query |-> Undefined]

\* The characters the getters and the parsers cut on.
Comma == 44
Semicolon == 59
Equals == 61
Ampersand == 38

\* \s of a regular expression, on ASCII text.
IsWhitespace(c) == c \in {9, 10, 11, 12, 13, 32}

\* \d of a regular expression.
IsDigit(c) == c \in 48..57

\* s without one leading whitespace character, if it has one.
DropOneSpace(s) == IF s # <<>> /\ IsWhitespace(s[1]) THEN Tail(s) ELSE s

\* s.split(/,\s?/): every comma cuts, and takes one whitespace character
\* after it along.
SplitCommaSpace(s) ==
  LET parts == Split(s, Comma)
  IN [i \in 1..Len(parts) |-> IF i = 1 THEN parts[i] ELSE DropOneSpace(parts[i])]

\* The number of digits s ends with.
RECURSIVE TrailingDigits(_)
TrailingDigits(s) ==
  IF s # <<>> /\ IsDigit(s[Len(s)]) THEN 1 + TrailingDigits(SubSeq(s, 1, Len(s) - 1))
  ELSE 0

\* s.replace(/:\d+$/, '')
StripPort(s) ==
  LET d == TrailingDigits(s)
  IN IF d > 0 /\ Len(s) > d /\ s[Len(s) - d] = Colon
     THEN SubSeq(s, 1, Len(s) - d - 1)
     ELSE s

\* An object whose properties are props (a function from names to values).
Object(props) == [t |-> "object", props |-> props]
Array(items) == [t |-> "array", items |-> items]

\* s without its leading whitespace.
RECURSIVE TrimLeft(_)
TrimLeft(s) == IF s # <<>> /\ IsWhitespace(s[1]) THEN TrimLeft(Tail(s)) ELSE s

\* name=value pairs separated by sep, in order.
PairsOf(s, sep) ==
  LET parts == SelectSeq(Split(s, sep), LAMBDA p : TrimLeft(p) # <<>>)
      name(p) == LET i == IndexOf(p, Equals)
                 IN IF i = 0 THEN p ELSE SubSeq(p, 1, i - 1)
      value(p) == LET i == IndexOf(p, Equals)
                  IN IF i = 0 THEN <<>> ELSE SubSeq(p, i + 1, Len(p))
  IN [i \in 1..Len(parts) |->
        [name |-> name(TrimLeft(parts[i])), value |-> value(TrimLeft(parts[i]))]]

\* The object a list of pairs parses to: a name given once maps to its
\* value, a name given several times to the array of its values.
ObjectOfPairs(pairs) ==
  LET names == {pairs[i].name : i \in 1..Len(pairs)}
      valuesOf(n) == LET own == SelectSeq(pairs, LAMBDA p : p.name = n)
                     IN [i \in 1..Len(own) |-> Str(own[i].value)]
  IN Object([n \in names |->
       IF Len(valuesOf(n)) = 1 THEN valuesOf(n)[1] ELSE Array(valuesOf(n))])

\* utils/parseCookie and utils/parseQuery.
parseCookie(header) == ObjectOfPairs(PairsOf(header.s, Semicolon))
parseQuery(queryString) == ObjectOfPairs(PairsOf(queryString.s, Ampersand))

\* array[0] || ''
FirstOrEmpty(items) == IF items = <<>> THEN EmptyString ELSE Or(items[1], EmptyString)

\* if (!this._cookies), if (!this._query): the memo slot is filled.
MemoHit_never(slot) == FALSE
MemoHit(slot) == Truthy(slot)

\* get cookies, lines 105-127: what the getter leaves in this._cookies.
CookiesSlot(q) ==
  IF MemoHit(q._cookies) THEN q._cookies
  ELSE IF Truthy(q.headers["Cookie"])
       THEN LET cookies == parseCookie(q.headers["Cookie"]).props
            IN Object([n \in DOMAIN cookies |->
                 IF cookies[n].t = "array" THEN FirstOrEmpty(cookies[n].items)
                 ELSE cookies[n]])
       ELSE Object(<<>>)

\* get query, lines 219-224: what the getter leaves in this._query.
QuerySlot(q) == IF MemoHit(q._query) THEN q._query ELSE parseQuery(q.queryString)

\* get protocol, lines 132-140
Protocol(q) ==
  IF q.headers["X-Forwarded-Ssl"] = Str(<<111, 110>>) THEN Str(<<104, 116, 116, 112, 115, 58>>)
  ELSE IF Truthy(q.headers["X-Forwarded-Proto"])
       THEN Concat(At(Split(q.headers["X-Forwarded-Proto"].s, Comma), 0), Str(<<Colon>>))
       ELSE q._protocol

\* get isSSL, lines 145-147
IsSSL(q) == IF Protocol(q) = Str(<<104, 116, 116, 112, 115, 58>>) THEN True ELSE False

\* if (this.serverPort)
PortKnown(serverPort) == Truthy(serverPort)

\* get host, lines 152-167
Host(q) ==
  LET forwardedHost == q.headers["X-Forwarded-Host"]
  IN IF Truthy(forwardedHost)
     THEN LET parts == SplitCommaSpace(forwardedHost.s)
          IN Str(parts[Len(parts)])
     ELSE IF Truthy(q.headers["Host"]) THEN q.headers["Host"]
     ELSE IF PortKnown(q.serverPort)
          THEN Concat(Concat(q.serverName, Str(<<Colon>>)), q.serverPort)
          ELSE q.serverName

\* get hostname, lines 172-174
Hostname(q) == Str(StripPort(Host(q).s))

\* get port, lines 179-192
Port(q) ==
  LET port == Or(At(Split(Host(q).s, Colon), 1), q.headers["X-Forwarded-Port"])
  IN IF Truthy(port) THEN port
     ELSE IF Truthy(IsSSL(q)) THEN Str(<<52, 52, 51>>)
     ELSE IF Truthy(q.headers["X-Forwarded-Host"]) THEN Str(<<56, 48>>)
     ELSE q.serverPort

\* get pathname, lines 204-206
Pathname(q) == Concat(q.scriptName, q.pathInfo)

\* get search, lines 211-213
Search(q) ==
  IF Truthy(q.queryString) THEN Concat(Str(<<63>>), q.queryString) ELSE EmptyString

\* get path, lines 197-199
Path(q) == Concat(Pathname(q), Search(q))

\* get url, lines 229-231
Url(q) == Concat(Concat(Concat(Protocol(q), Str(<<47, 47>>)), Host(q)), Path(q))

\* get isXHR, lines 236-238
IsXHR(q) == IF q.headers["X-Requested-With"] = Str(<<88, 77, 76, 72, 116, 116, 112, 82, 101, 113, 117, 101, 115, 116>>) THEN True ELSE False

\* get remoteHost, lines 243-245
RemoteHost(q) == Or(q.headers["X-Forwarded-For"], q._remoteHost)

\* The derived properties of a Request.
DerivedProperties ==
  {"cookies", "query", "host", "hostname", "port", "path", "pathname", "search",
   "url", "isSSL", "isXHR", "remoteHost"}

\* What reading request[prop] returns.
Get(q, prop) ==
  CASE prop = "cookies" -> CookiesSlot(q)
    [] prop = "query" -> QuerySlot(q)
    [] prop = "host" -> Host(q)
    [] prop = "hostname" -> Hostname(q)
    [] prop = "port" -> Port(q)
    [] prop = "path" -> Path(q)
    [] prop = "pathname" -> Pathname(q)
    [] prop = "search" -> Search(q)
    [] prop = "url" -> Url(q)
    [] prop = "isSSL" -> IsSSL(q)
    [] prop = "isXHR" -> IsXHR(q)
    [] prop = "remoteHost" -> RemoteHost(q)

\* The Request after reading request[prop]: cookies and query fill their
\* memo slot, no other getter writes.
AfterGet(q, prop) ==
  CASE prop = "cookies" -> [q EXCEPT !._cookies = CookiesSlot(q)]
    [] prop = "query" -> [q EXCEPT !._query = QuerySlot(q)]
    [] OTHER -> q

(* --------------------- one Request, read and written ------------------ *)

\* new Request() with no options.
BaseOptions ==
  [headers |-> <<>>, protocol |-> Undefined, protocolVersion |-> Undefined,
   method |-> Undefined, remoteHost |-> Undefined, remotePort |-> Undefined,
   serverName |-> Undefined, serverPort |-> Undefined, queryString |-> Undefined,
   scriptName |-> Undefined, pathInfo |-> Undefined, path |-> Undefined]

\* Every combination of scriptName, pathInfo and path: absent, empty, given.
PathOptions ==
  {[BaseOptions EXCEPT !.scriptName = sn, !.pathInfo = pi, !.path = pa] :
     sn \in {Undefined, EmptyString, Str(<<47, 97, 112, 112>>)},
     pi \in {Undefined, EmptyString, Str(<<47, 105, 116, 101, 109, 115>>)},
     pa \in {Undefined, EmptyString, Str(<<47, 97, 108, 116>>)}}

\* Every combination of the sources of host: X-Forwarded-Host (one value, or
\* a chain of proxies), Host, and the server's name and port.
HostHeaders ==
  {fh @@ hh :
     fh \in {<<>>, "X-Forwarded-Host" :> Str(<<112, 114, 111, 120, 121, 46, 101, 120, 97, 109, 112, 108, 101>>),
             "X-Forwarded-Host" :> Str(<<97, 46, 101, 120, 97, 109, 112, 108, 101, 44, 32, 98, 46, 101, 120, 97, 109, 112, 108, 101, 58, 56, 48, 56, 48>>)},
     hh \in {<<>>, "Host" :> Str(<<101, 120, 97, 109, 112, 108, 101, 46, 99, 111, 109, 58, 51, 48, 48, 48>>)}}

HostOptions ==
  {[BaseOptions EXCEPT !.headers = h, !.serverName = Str(<<115, 114, 118>>), !.serverPort = sp] :
     h \in HostHeaders, sp \in {Undefined, Num(8080)}}

\* Requests that came through an SSL-terminating proxy, or over https.
ProtocolOptions ==
  {[BaseOptions EXCEPT !.headers = "X-Forwarded-Ssl" :> Str(<<111, 110>>), !.serverName = Str(<<115, 114, 118>>)],
   [BaseOptions EXCEPT !.headers = "X-Forwarded-Proto" :> Str(<<104, 116, 116, 112, 115, 44, 104, 116, 116, 112>>), !.serverName = Str(<<115, 114, 118>>)],
   [BaseOptions EXCEPT !.protocol = Str(<<104, 116, 116, 112, 115, 58>>), !.serverName = Str(<<115, 114, 118>>),
                       !.serverPort = Num(443)]}

\* A request with cookies, a query string, and the headers of a script
\* behind a proxy.
BrowserOptions ==
  {[BaseOptions EXCEPT
      !.headers = ("Cookie" :> Str(<<97, 61, 49, 59, 32, 98, 61, 50, 59, 32, 97, 61, 51>>))
                    @@ ("X-Requested-With" :> Str(<<88, 77, 76, 72, 116, 116, 112, 82, 101, 113, 117, 101, 115, 116>>))
                    @@ ("X-Forwarded-For" :> Str(<<49, 48, 46, 48, 46, 48, 46, 49>>))
                    @@ ("X-Forwarded-Port" :> Str(<<56, 52, 52, 51>>))
                    @@ ("Host" :> Str(<<101, 120, 97, 109, 112, 108, 101, 46, 99, 111, 109>>)),
      !.method = Str(<<112, 111, 115, 116>>),
      !.remoteHost = Str(<<49, 50, 55, 46, 48, 46, 48, 46, 49>>),
      !.queryString = Str(<<120, 61, 49, 38, 121, 61, 50, 38, 120, 61, 51>>),
      !.pathInfo = Str(<<47, 105, 116, 101, 109, 115>>)]}

RequestOptions == PathOptions \cup HostOptions \cup ProtocolOptions \cup BrowserOptions

\* Writes to the headers a getter reads.
HeaderWrites ==
  {[name |-> "X-Forwarded-Host", value |-> Str(<<110, 101, 119, 46, 101, 120, 97, 109, 112, 108, 101, 58, 56, 49>>)],
   [name |-> "X-Forwarded-Proto", value |-> Str(<<104, 116, 116, 112, 115>>)],
   [name |-> "Cookie", value |-> Str(<<97, 61, 57>>)],
   [name |-> "X-Requested-With", value |-> Str(<<88, 77, 76, 72, 116, 116, 112, 82, 101, 113, 117, 101, 115, 116>>)],
   [name |-> "X-Forwarded-For", value |-> Str(<<49, 48, 46, 57, 46, 57, 46, 57>>)]}

\* Writes to the fields a getter reads.
FieldWrites ==
  {[name |-> "queryString", value |-> Str(<<122, 61, 57>>)],
   [name |-> "pathInfo", value |-> Str(<<47, 111, 116, 104, 101, 114>>)]}

\* request = new Request(options)
ConstructRequest ==
  /\ self = [t |-> "no request"]
  /\ \E o \in RequestOptions :
       /\ options' = o
       /\ self' = NewRequest(o)
  /\ UNCHANGED <<writes, seen, callVars, authVars, paramVars, bindVars>>

\* request[prop] is read.  No getter writes a slot another getter reads, so
\* the reads of one property are followed at a time.
Read ==
  /\ self.t = "Request"
  /\ \E prop \in IF seen = NotRead THEN DerivedProperties ELSE {seen.prop} :
       LET value == Get(self, prop)
       IN /\ seen' = IF seen = NotRead
                     THEN [prop |-> prop, first |-> value, firstAt |-> writes,
                           latest |-> value, at |-> writes]
                     ELSE [seen EXCEPT !.latest = value, !.at = writes]
          /\ self' = AfterGet(self, prop)
  /\ UNCHANGED <<options, writes, callVars, authVars, paramVars, bindVars>>

\* request.headers[name] = value
SetHeader ==
  /\ self.t = "Request"
  /\ writes < MaxWrites
  /\ \E w \in HeaderWrites : self' = [self EXCEPT !.headers[w.name] = w.value]
  /\ writes' = writes + 1
  /\ UNCHANGED <<options, seen, callVars, authVars, paramVars, bindVars>>

\* request.queryString = value, request.pathInfo = value
SetField ==
  /\ self.t = "Request"
  /\ writes < MaxWrites
  /\ \E w \in FieldWrites :
       self' = IF w.name = "queryString" THEN [self EXCEPT !.queryString = w.value]
               ELSE [self EXCEPT !.pathInfo = w.value]
  /\ writes' = writes + 1
  /\ UNCHANGED <<options, seen, callVars, authVars, paramVars, bindVars>>

InitRequest ==
  InitCall /\ InitAuthIdle /\ InitParamsIdle /\ InitBindIdle /\ InitRequestIdle

NextRequest == ConstructRequest \/ Read \/ SetHeader \/ SetField

SpecRequest == InitRequest /\ [][NextRequest]_vars

(* ------------------- the parameters of one request -------------------- *)

InitParams ==
  /\ InitCall
  /\ InitAuthIdle
  /\ InitBindIdle
  /\ InitRequestIdle
  /\ query \in QueryInputs
  /\ content \in ContentInputs
  /\ contentReads = 0
  /\ queryParams = EmptyObject
  /\ parse = NoParse
  /\ params = NoParams
  /\ nextPromise = 1
  /\ returned = <<>>
  /\ filters = <<>>

CallGetParams ==
  /\ \E maxLength \in MaxLengths, uploadPrefix \in UploadPrefixes :
       GetParams(maxLength, uploadPrefix)
  /\ UNCHANGED <<callVars, authVars, bindVars, reqVars>>

CallFilterParams ==
  /\ \E filterMap \in FilterMaps, maxLength \in MaxLengths, uploadPrefix \in UploadPrefixes :
       FilterParams(filterMap, maxLength, uploadPrefix)
  /\ UNCHANGED <<callVars, authVars, bindVars, reqVars>>

ContentParsed == ParseContentDone /\ UNCHANGED <<callVars, authVars, bindVars, reqVars>>

ParamsMerged == GetParamsThen /\ UNCHANGED <<callVars, authVars, bindVars, reqVars>>

ParamsFiltered ==
  /\ \E i \in 1..Len(filters) : FilterParamsThen(i)
  /\ UNCHANGED <<callVars, authVars, bindVars, reqVars>>

NextParams ==
  \/ CallGetParams
  \/ CallFilterParams
  \/ ContentParsed
  \/ ParamsMerged
  \/ ParamsFiltered

SpecParams == InitParams /\ [][NextParams]_vars

(* ============================ properties ============================== *)

(* --------------------------- request.call ------------------------------ *)

\* C1: if invoking the app throws synchronously, request.call(app) does not
\* throw: it returns a promise rejected with exactly that error, and the app
\* has been invoked once only (no retry).
C1_ThrowBecomesRejection ==
  \A r \in Requests :
    appThrown[r] # NoError =>
      /\ callOutcome[r] = "returned"
      /\ callPromise[r] = Rejected(appThrown[r])
      /\ appCalls[r] = 1

C1_Witness ==
  \E r \in Requests : callPc[r] = "settled" /\ appThrown[r] = Error("boom")

\* C2: when the app returns null/undefined, or a deferred that resolves to
\* null/undefined, the promise of request.call is never fulfilled, and once
\* settled it is rejected with the error that names the app.
C2_NullResponseRejects ==
  \A r \in Requests :
    LET s == Settlement(appReturn[r])
    IN (appReturn[r] # NotReturned /\ s.state = "fulfilled" /\ IsNullish(s.value)) =>
         /\ callPromise[r].state # "fulfilled"
         /\ callPc[r] = "settled" =>
              callPromise[r] = Rejected(Error("No response returned from app: " \o callApp[r]))

C2_Witness ==
  \E r \in Requests :
    /\ callPc[r] = "settled"
    /\ appReturn[r] = Deferred(Fulfilled(Null))
    /\ callPromise[r].state = "rejected"

\* C3: whenever the promise of request.call is fulfilled, its value is a
\* Response instance: the very value the app produced if that was a Response
\* instance, and otherwise a Response built from the status, headers and
\* content of what the app produced (directly or through a deferred).
C3_ResolvesToCanonicalResponse ==
  \A r \in Requests :
    callPromise[r].state = "fulfilled" =>
      LET v == callPromise[r].value
          s == Settlement(appReturn[r]).value
      IN /\ v.t = "Response"
         /\ s.t = "Response" => v = s
         /\ s.t # "Response" =>
              /\ v.status = s.status
              /\ v.headers = s.headers
              /\ v.content = s.content
              /\ v.made = "createFromObject"

C3_Witness ==
  \E r \in Requests :
    /\ callPromise[r].state = "fulfilled"
    /\ appReturn[r] = Deferred(Fulfilled(PlainObject(404, NoHeaders, "not found")))

(* ----------------------------- Basic Auth ------------------------------ *)

\* The challenge a 401 carries for the realm argument basicAuth was given:
\* Basic realm="<realm>", the realm being "Authorization Required" when the
\* argument was left out (or empty).
ExpectedChallenge ==
  LET realm == IF authConfig.realm.t = "string" /\ authConfig.realm.s # <<>>
               THEN authConfig.realm.s ELSE DefaultRealm
  IN Str(ChallengePrefix \o realm \o <<34>>)

Expected401 ==
  PlainObject(401,
    ("Content-Type" :> "text/plain") @@ ("WWW-Authenticate" :> ExpectedChallenge),
    "Not Authorized")

\* The text the client encoded into the Authorization header of the subject.
ClientCreds ==
  (CHOOSE i \in AuthInputs : i.header = request[Subject].authorization).creds

\* C4: for a request without an Authorization header the Basic Auth app
\* returns status 401 with WWW-Authenticate: Basic realm="<realm>" (the
\* configured realm, or "Authorization Required"), Content-Type text/plain
\* and the body "Not Authorized".
C4_NoHeaderIs401 ==
  (auth[Subject].pc = "done" /\ ~Truthy(request[Subject].authorization)) =>
    /\ auth[Subject].outcome = "returned"
    /\ auth[Subject].returned = Expected401

C4_Witness ==
  /\ auth[Subject].pc = "done"
  /\ request[Subject].authorization = Undefined
  /\ authConfig.realm = Str(StaffOnly)

\* The Authorization header of the subject has a scheme token that is not
\* "basic" in lower case.
SchemeNotBasic ==
  /\ request[Subject].authorization.t = "string"
  /\ request[Subject].authorization.s # <<>>
  /\ ToLowerCase(Split(request[Subject].authorization.s, Space)[1]) # BasicLower

\* C5: when the scheme token is not "basic" in lower case, the app responds
\* with status 400 and neither validate nor the downstream app is invoked.
C5_OtherSchemeIs400 ==
  SchemeNotBasic =>
    /\ auth[Subject].validateCalls = 0
    /\ appCalls[Subject] = 0
    /\ auth[Subject].pc = "done" =>
         /\ auth[Subject].outcome = "returned"
         /\ auth[Subject].returned.status = 400

C5_Witness ==
  SchemeNotBasic /\ auth[Subject].pc = "done"

\* The text of creds before its first colon (all of it without a colon).
BeforeFirstColon(creds) ==
  IF IndexOf(creds, Colon) = 0 THEN creds
  ELSE SubSeq(creds, 1, IndexOf(creds, Colon) - 1)

\* The text of creds after its first colon.
AfterFirstColon(creds) == SubSeq(creds, IndexOf(creds, Colon) + 1, Len(creds))

\* validate's result has resolved, directly or through a deferred.
ValidateResolved ==
  /\ auth[Subject].validateReturn # NotReturned
  /\ Settlement(auth[Subject].validateReturn).state = "fulfilled"

ValidateResult == Settlement(auth[Subject].validateReturn).value

\* C6: when validate's result is truthy, then once the callback has run the
\* downstream app has been invoked once through request.call and saw
\* request.remoteUser already set: to the decoded username for true, to the
\* result itself for any other truthy value; and the promise the app
\* returned settles as request.call's did.
C6_TruthySetsUserThenDelegates ==
  (ValidateResolved /\ Truthy(ValidateResult) /\ auth[Subject].pc \in {"delegated", "done"}) =>
    /\ request[Subject].remoteUser =
         IF ValidateResult = True THEN Str(BeforeFirstColon(ClientCreds))
         ELSE ValidateResult
    /\ appCalls[Subject] = 1
    /\ callApp[Subject] = DownstreamApp
    /\ appSaw[Subject] = request[Subject].remoteUser
    /\ auth[Subject].outcome = "returned"
    /\ auth[Subject].pc = "done" => auth[Subject].promise = callPromise[Subject]

C6_Witness ==
  /\ auth[Subject].pc = "done"
  /\ auth[Subject].validateReturn = Deferred(Fulfilled(Str(CanonicalAdmin)))
  /\ ClientCreds = <<97, 100, 109, 105, 110, 58, 115, 101, 99, 114, 101, 116>>
  /\ appSaw[Subject] = Str(CanonicalAdmin)
  /\ auth[Subject].promise.state = "fulfilled"

\* C7: when validate's result is falsy, the downstream app is not invoked,
\* remoteUser is not set, and the app's promise is fulfilled with the 401
\* that carries the challenge.
C7_FalsyIs401 ==
  (ValidateResolved /\ ~Truthy(ValidateResult)) =>
    /\ appCalls[Subject] = 0
    /\ request[Subject].remoteUser = Undefined
    /\ auth[Subject].pc = "done" => auth[Subject].promise = Fulfilled(Expected401)

C7_Witness ==
  /\ auth[Subject].pc = "done"
  /\ auth[Subject].validateReturn = Deferred(Fulfilled(False))

\* C8: validate is given the text before the first colon of the decoded
\* credentials as username and everything after the first colon as password.
C8_SplitOnFirstColon ==
  (auth[Subject].validateCalls > 0 /\ IndexOf(ClientCreds, Colon) # 0) =>
    auth[Subject].validateArgs =
      <<Str(BeforeFirstColon(ClientCreds)), Str(AfterFirstColon(ClientCreds))>>

(* ------------------------------ getParams ------------------------------ *)

\* C9: after any sequence of getParams and filterParams calls, whatever
\* their arguments and whether or not the first promise has settled, every
\* getParams call returned the one cached promise and the content stream
\* has been parsed exactly once.
C9_OneCachedPromiseOneParse ==
  Len(returned) > 0 =>
    /\ contentReads = 1
    /\ \A i \in 1..Len(returned) : returned[i] = returned[1]
    /\ params.id = returned[1]

C9_Witness ==
  /\ Len(returned) = 3
  /\ Len(filters) = 1
  /\ params.p.state = "fulfilled"
  /\ filters[1].p = Pending

\* C10: the mapping getParams resolves to has the keys of the query and of
\* the parsed content; a key of the content has the content's value, any
\* other key the query's.
C10_ContentOverridesQuery ==
  (params # NoParams /\ params.p.state = "fulfilled") =>
    LET merged == params.p.value
    IN /\ DOMAIN merged = DOMAIN query \cup DOMAIN content.params
       /\ \A k \in DOMAIN content.params : merged[k] = content.params[k]
       /\ \A k \in DOMAIN query \ DOMAIN content.params : merged[k] = query[k]

C10_Witness ==
  /\ query = ("a" :> One) @@ ("name" :> Ex)
  /\ content.params = ("a" :> Two) @@ ("b" :> Three)
  /\ params.p = Fulfilled(("a" :> Two) @@ ("b" :> Three) @@ ("name" :> Ex))

(* ----------------------------- filterParams ---------------------------- *)

\* C11: the mapping filterParams resolves to holds a key exactly when the
\* key is in filterMap with a filter function, is present in the merged
\* params, and the filter applied to the raw value returns a defined value;
\* the key's value is then what the filter returned.  Every other param is
\* dropped.
C11_FilterIsWhitelist ==
  \A i \in 1..Len(filters) :
    filters[i].p.state = "fulfilled" =>
      LET fm == filters[i].filterMap
          merged == params.p.value
          result == filters[i].p.value
      IN /\ params.p.state = "fulfilled"
         /\ \A k \in DOMAIN fm \cup DOMAIN merged \cup DOMAIN result :
              IF /\ k \in DOMAIN fm
                 /\ k \in DOMAIN merged
                 /\ fm[k] # "none"
                 /\ ApplyFilter(fm[k], merged[k]) # Undefined
              THEN k \in DOMAIN result /\ result[k] = ApplyFilter(fm[k], merged[k])
              ELSE k \notin DOMAIN result

C11_Witness ==
  /\ query = ("age" :> Thirty) @@ ("name" :> Ex)
  /\ content.params = EmptyObject
  /\ Len(filters) = 2
  /\ filters[1].filterMap = ("age" :> "Number")
  /\ filters[1].p = Fulfilled(("age" :> Num(30)))
  /\ filters[2].filterMap = ("a" :> "String") @@ ("name" :> "dropIt")
  /\ filters[2].p = Fulfilled(EmptyObject)

(* ------------------- Basic Auth: construction, paths ------------------- *)

\* C15: basicAuth called with a validate that is missing or not a function
\* throws at once: no app function comes back, so no request is ever
\* handled by one and validate is never invoked.
C15_ConstructionFailsWithoutValidate ==
  (authState # "unconstructed" /\ authConfig.validate # "function") =>
    /\ authState = "threw"
    /\ auth[Subject].pc = "start"
    /\ auth[Subject].validateCalls = 0
    /\ appCalls[Subject] = 0

C15_Witness ==
  authState = "threw" /\ authConfig.validate = "string"

\* C17: for a request that carries an Authorization header the app never
\* throws out of its synchronous part; stated here for the requests on which
\* validate has not been invoked (a throw of validate itself is left aside).
C17_HeaderNeverThrows ==
  (/\ Truthy(request[Subject].authorization)
   /\ auth[Subject].pc = "done"
   /\ auth[Subject].validateCalls = 0) =>
    auth[Subject].outcome = "returned"

\* C18: the downstream app is invoked at most once, and only after validate
\* has been invoked exactly once and its result has resolved to a truthy
\* value; request.remoteUser is written on no other path (not with a 400, a
\* 401 or a rejected validation).
C18_DownstreamOnlyAfterTruthyValidation ==
  /\ appCalls[Subject] <= 1
  /\ auth[Subject].validateCalls <= 1
  /\ appCalls[Subject] = 1 =>
       /\ auth[Subject].validateCalls = 1
       /\ ValidateResolved
       /\ Truthy(ValidateResult)
  /\ request[Subject].remoteUser # Undefined =>
       /\ ValidateResolved
       /\ Truthy(ValidateResult)
       /\ appCalls[Subject] = 1

C18_Witness ==
  /\ auth[Subject].pc = "done"
  /\ appCalls[Subject] = 1
  /\ auth[Subject].validateReturn = True
  /\ request[Subject].remoteUser = Str(<<98, 111, 98>>)

(* -------------------- Basic Auth: requests side by side ---------------- *)

\* The text the client of request r encoded into its Authorization header.
CredsOf(r) ==
  (CHOOSE i \in AuthInputs : i.header = request[r].authorization).creds

\* validate's result for request r has resolved to v.
ValidateResolvedTo(r, v) ==
  /\ auth[r].validateReturn # NotReturned
  /\ Settlement(auth[r].validateReturn) = Fulfilled(v)

\* C19: with several requests in flight through one Basic Auth app, their
\* validations pending together and resolving in any order, every request's
\* outcome follows from its own header and its own validation result: the
\* downstream invocation of a request sees the remoteUser derived from that
\* request, a request with a truthy result is delegated whatever happened to
\* the others, and a request with a falsy result (or no header) gets its 401
\* and nothing else.
C19_RequestsDoNotInterfere ==
  \A r \in Requests :
    LET resolved == auth[r].validateReturn # NotReturned
                      /\ Settlement(auth[r].validateReturn).state = "fulfilled"
        result == Settlement(auth[r].validateReturn).value
        expectedUser == IF result = True THEN Str(BeforeFirstColon(CredsOf(r)))
                        ELSE result
        decided == auth[r].pc \in {"delegated", "done"}
    IN /\ request[r].remoteUser # Undefined =>
            resolved /\ Truthy(result) /\ request[r].remoteUser = expectedUser
       /\ appCalls[r] > 0 =>
            resolved /\ Truthy(result) /\ appCalls[r] = 1 /\ appSaw[r] = expectedUser
       /\ (decided /\ resolved /\ Truthy(result)) =>
            /\ appCalls[r] = 1
            /\ request[r].remoteUser = expectedUser
            /\ auth[r].pc = "done" => auth[r].promise = callPromise[r]
       /\ (decided /\ resolved /\ ~Truthy(result)) =>
            /\ appCalls[r] = 0
            /\ auth[r].promise.state = "fulfilled"
            /\ auth[r].promise.value.status = 401
       /\ (decided /\ request[r].authorization = Undefined) =>
            auth[r].returned.status = 401 /\ appCalls[r] = 0

C19_Witness ==
  \E r1, r2 \in Requests :
    /\ r1 # r2
    /\ CredsOf(r1) = <<97, 100, 109, 105, 110, 58, 115, 101, 99, 114, 101, 116>>
    /\ CredsOf(r2) = <<98, 111, 98, 58>>
    /\ auth[r1].validateReturn = Deferred(Fulfilled(False))
    /\ auth[r2].validateReturn = Deferred(Fulfilled(True))
    /\ auth[r1].pc = "done"
    /\ auth[r1].promise.value.status = 401
    /\ auth[r2].pc = "done"
    /\ appSaw[r2] = Str(<<98, 111, 98>>)
    /\ auth[r2].promise = Fulfilled(PairResponse)

(* ------------------------------ mach.bind ------------------------------ *)

\* The promise request.call(app) returned for request r has settled.
CallSettled(r) == callPromise[r].state \in {"fulfilled", "rejected"}

\* The listener has nothing left to run for request r.
BindFinished(r) == bind[r].pc \in {"done", "threw"}

\* C13: when the promise of request.call(app) is rejected, the listener
\* writes exactly the head 500 text/plain (never a head of the app), ends
\* the response with "Internal Server Error" and writes one diagnostic to
\* request.error.
C13_RejectionBecomes500 ==
  \A r \in Requests :
    (BindFinished(r) /\ callPromise[r].state = "rejected") =>
      /\ nodeResponse[r].heads = <<WriteHead(500, TextPlain)>>
      /\ nodeResponse[r].body = [ended |-> InternalServerError]
      /\ Len(errorLog[r]) = 1

\* With a reason that has a stack the conversion is as C13 says.
RejectionWithStackBecomes500 ==
  \A r \in Requests :
    (BindFinished(r) /\ callPromise[r].state = "rejected"
       /\ ~IsNullish(callPromise[r].value)) =>
      /\ nodeResponse[r].heads = <<WriteHead(500, TextPlain)>>
      /\ nodeResponse[r].body = [ended |-> InternalServerError]
      /\ errorLog[r] = <<Diagnostic(callPromise[r].value)>>
      /\ doneCalls[r] = 1

\* At most one head, at most one done(), at most one continuation.
AtMostOnce ==
  \A r \in Requests :
    /\ Len(nodeResponse[r].heads) <= 1
    /\ doneCalls[r] <= 1
    /\ Cardinality(bind[r].ran) <= 1

\* C20: for every request event, once the promise of request.call(app) has
\* settled, exactly one head is eventually written (the app's, or 500) and
\* request.done() is eventually called, each exactly once; the two
\* continuations never both run.
C20_OneHeadAndDone ==
  /\ []AtMostOnce
  /\ \A r \in Requests :
       (bind[r].pc # "idle" /\ CallSettled(r))
         ~> (Len(nodeResponse[r].heads) = 1 /\ doneCalls[r] = 1)

(* ------------------------- Request: the getters ------------------------ *)

\* The latest read saw the Request as it is now.
ReadIsCurrent == seen # NotRead /\ seen.at = writes

\* An option is given and not empty.
Given(option) == option # Undefined /\ option # EmptyString

\* C16: after new Request(options), for every combination of the options
\* scriptName, pathInfo and path (absent, empty or given), scriptName and
\* pathInfo are not both empty: when none of the three is given pathInfo is
\* "/", otherwise they are as given; pathname is never the empty string.
C16_PathInfoNeverEmptyWithScriptName ==
  (self.t = "Request" /\ writes = 0) =>
    /\ ~(self.scriptName = EmptyString /\ self.pathInfo = EmptyString)
    /\ self.scriptName = (IF Given(options.scriptName) THEN options.scriptName ELSE EmptyString)
    /\ self.pathInfo =
         (IF Given(options.pathInfo) THEN options.pathInfo
          ELSE IF Given(options.path) THEN options.path
          ELSE IF Given(options.scriptName) THEN EmptyString
          ELSE Str(<<47>>))
    /\ Pathname(self) # EmptyString
    /\ (ReadIsCurrent /\ seen.prop = "pathname") => seen.latest # EmptyString

C16_Witness ==
  /\ self.t = "Request"
  /\ options.scriptName = EmptyString
  /\ options.pathInfo = EmptyString
  /\ options.path = Undefined
  /\ writes = 0
  /\ self.pathInfo = Str(<<47>>)
  /\ seen # NotRead
  /\ seen.prop = "pathname"
  /\ seen.latest = Str(<<47>>)

\* The host C14 describes, for the Request as it is now.
ClaimedHost ==
  IF self.headers["X-Forwarded-Host"] # Undefined
  THEN LET parts == SplitCommaSpace(self.headers["X-Forwarded-Host"].s)
       IN Str(parts[Len(parts)])
  ELSE IF self.headers["Host"] # Undefined THEN self.headers["Host"]
  ELSE IF options.serverPort # Undefined
       THEN Concat(Concat(self.serverName, Str(<<Colon>>)), String(options.serverPort))
       ELSE self.serverName

\* C14: host is the last value of X-Forwarded-Host if the header is present;
\* else the Host header; else serverName:serverPort if the Request was given
\* a server port; else the bare serverName, with no ':' suffix.
C14_HostPrecedence ==
  (ReadIsCurrent /\ seen.prop = "host") => seen.latest = ClaimedHost

\* Where a host header is present or a server port was given, host is as
\* C14 says.
HostPrecedenceWhenPortGiven ==
  (ReadIsCurrent /\ seen.prop = "host"
     /\ (options.serverPort # Undefined \/ self.headers["X-Forwarded-Host"] # Undefined
           \/ self.headers["Host"] # Undefined)) =>
    seen.latest = ClaimedHost

\* C12, as stated: whichever derived property is read, every later read
\* returns the value of the first read, whatever was written to the
\* Request's headers and fields in between.
C12_EveryDerivedPropertyCached ==
  seen # NotRead => seen.latest = seen.first

\* The derived properties with a memo slot.
Memoized == {"cookies", "query"}

\* C12, amended: cookies and query are computed on first read and kept in
\* their memo slot, so every later read returns the value of the first read
\* whatever was written in between; each of the other ten derived
\* properties is computed anew on every read from the Request's current
\* headers and fields.
C12_OnlyCookiesAndQueryCached ==
  seen # NotRead =>
    IF seen.prop \in Memoized
    THEN /\ seen.latest = seen.first
         /\ seen.first = Get(NewRequest(options), seen.prop) \/ seen.firstAt > 0
         /\ (IF seen.prop = "cookies" THEN self._cookies ELSE self._query) = seen.first
    ELSE ReadIsCurrent => seen.latest = Get(self, seen.prop)

C12_Witness ==
  /\ seen # NotRead
  /\ seen.prop = "cookies"
  /\ seen.firstAt = 0
  /\ seen.at = 1
  /\ self.headers["Cookie"] = Str(<<97, 61, 57>>)
  /\ options.headers = ("Cookie" :> Str(<<97, 61, 49, 59, 32, 98, 61, 50, 59, 32, 97, 61, 51>>))
                    @@ ("X-Requested-With" :> Str(<<88, 77, 76, 72, 116, 116, 112, 82, 101, 113, 117, 101, 115, 116>>))
                    @@ ("X-Forwarded-For" :> Str(<<49, 48, 46, 48, 46, 48, 46, 49>>))
                    @@ ("X-Forwarded-Port" :> Str(<<56, 52, 52, 51>>))
                    @@ ("Host" :> Str(<<101, 120, 97, 109, 112, 108, 101, 46, 99, 111, 109>>))
  /\ seen.latest = Object((<<97>> :> Str(<<49>>)) @@ (<<98>> :> Str(<<50>>)))

=============================================================================
